---- MODULE Spec2Model ----
(***************************************************************************)
(* AgroBrand Fusion AI (src/agrobrand_app.py): the Vision-label selection, *)
(* the World Bank price lookup with its fallback chain, and the Streamlit  *)
(* script run over the session state.                                      *)
(*                                                                         *)
(* Text is modelled as a sequence of one-character strings, so that        *)
(* lower(), capitalize(), substring search and string formatting are       *)
(* computed character by character as Python computes them.                *)
(***************************************************************************)
EXTENDS Integers, Sequences, FiniteSets, TLC

\* ------------------------------------------------------------------ text

\* Python's None, kept distinct from every text (no text has this element).
None == <<"None">>

UpperCase == <<"A","B","C","D","E","F","G","H","I","J","K","L","M","N","O","P","Q","R","S","T","U","V","W","X","Y","Z">>
LowerCase == <<"a","b","c","d","e","f","g","h","i","j","k","l","m","n","o","p","q","r","s","t","u","v","w","x","y","z">>
DigitChars == <<"0","1","2","3","4","5","6","7","8","9">>

\* Every character of the texts of the model that is not a letter.
OtherChars == {" ", ",", "(", ")", "/", "-", ".", ":", ";", "!", "?", "#", "[", "]", "₦"} \cup {DigitChars[i] : i \in 1..10}

Chars == {UpperCase[i] : i \in 1..26} \cup {LowerCase[i] : i \in 1..26} \cup OtherChars

\* str.lower() on one character.
LowerChar ==
    [c \in Chars |->
        IF \E i \in 1..26 : UpperCase[i] = c
        THEN LowerCase[CHOOSE i \in 1..26 : UpperCase[i] = c]
        ELSE c]

\* str.upper() on one character.
UpperChar ==
    [c \in Chars |->
        IF \E i \in 1..26 : LowerCase[i] = c
        THEN UpperCase[CHOOSE i \in 1..26 : LowerCase[i] = c]
        ELSE c]

\* str.lower()
Lower(s) == [i \in 1..Len(s) |-> LowerChar[s[i]]]

\* str.capitalize(): first character upper-cased, the rest lower-cased.
Capitalize(s) == [i \in 1..Len(s) |-> IF i = 1 THEN UpperChar[s[i]] ELSE LowerChar[s[i]]]

\* Python's `needle in hay` (literal substring; the empty needle is in every text).
Contains(hay, needle) ==
    \E k \in 0..(Len(hay) - Len(needle)) :
        \A j \in 1..Len(needle) : hay[k + j] = needle[j]

\* The regular expression pandas compiles from a pattern made of literal
\* characters and plain groups "( ... )": a group without quantifier or
\* alternation matches what its content matches, so the pattern matches the
\* text obtained by dropping the parentheses.  Every pattern the lookup passes
\* to str.contains (a synonym-map value, a label that has a synonym-map key,
\* a preferred market name) is of this shape.
RegexLiteral(pat) == SelectSeq(pat, LAMBDA c : c \notin {"(", ")"})

\* Series.str.contains(pat, case=False, na=False) on one cell.
str_contains(cell, pat) ==
    /\ cell # None
    /\ Contains(Lower(cell), Lower(RegexLiteral(pat)))

\* str.strip() (the whitespace of the model is the blank).
RECURSIVE LStrip(_)
LStrip(s) == IF s # <<>> /\ Head(s) = " " THEN LStrip(Tail(s)) ELSE s

RECURSIVE RStrip(_)
RStrip(s) == IF s # <<>> /\ s[Len(s)] = " " THEN RStrip(SubSeq(s, 1, Len(s) - 1)) ELSE s

Strip(s) == LStrip(RStrip(s))

\* ------------------------------------------------------ number formatting

RECURSIVE Digits(_)
Digits(n) == IF n < 10 THEN <<DigitChars[n + 1]>>
             ELSE Digits(n \div 10) \o <<DigitChars[(n % 10) + 1]>>

TwoDigits(n) == <<DigitChars[(n \div 10) + 1], DigitChars[(n % 10) + 1]>>

ThreeDigits(n) == <<DigitChars[(n \div 100) + 1]>> \o TwoDigits(n % 100)

\* format(n, ",") for a non-negative whole number.
RECURSIVE Grouped(_)
Grouped(n) == IF n < 1000 THEN Digits(n)
              ELSE Grouped(n \div 1000) \o <<",">> \o ThreeDigits(n % 1000)

\* f"₦{price:,.2f}", for a whole-naira price.
FormatPrice(price) == <<"₦">> \o Grouped(price) \o <<".", "0", "0">>

\* Timestamp.strftime('%Y-%m-%d'); a date d of the model is the d-th of May 2025.
strftime(d) == <<"2","0","2","5","-","0","5","-">> \o TwoDigits(d)

\* ------------------------------------------------------- program texts

NA == <<"N","/","A">>
ErrorText == <<"E","r","r","o","r">>
DataUnavailableText == <<"W","B"," ","D","a","t","a"," ","U","n","a","v","a","i","l","a","b","l","e">>
TooGenericText == <<"P","r","o","d","u","c","t"," ","T","o","o"," ","G","e","n","e","r","i","c">>
NotFoundText == <<"P","r","o","d","u","c","t"," ","N","o","t"," ","F","o","u","n","d"," ","i","n"," ","W","B"," ","D","a","t","a">>
MarketNotFoundText == <<"M","a","r","k","e","t"," ","N","o","t"," ","F","o","u","n","d"," ","f","o","r"," ","D","a","t","e">>
LookupFailedText == <<"L","o","o","k","u","p"," ","F","a","i","l","e","d">>
primary_target_market == <<"A","k","u","r","e">>
PrimaryTargetTag == <<" ","(","P","r","i","m","a","r","y"," ","T","a","r","g","e","t",")">>
FallbackFromText == <<" ","(","F","a","l","l","b","a","c","k"," ","f","r","o","m"," ">>
GeneralFallbackText == <<" ","(","G","e","n","e","r","a","l"," ","F","a","l","l","b","a","c","k",";"," ">>
NotAvailableTag == <<" ","N","/","A",")">>
TrendText == <<"S","o","u","r","c","e",":"," ","W","B"," ","M","o","n","t","h","l","y"," ","D","a","t","a"," ","(">>

\* PRODUCT_NAME_SYNONYM_MAP (src lines 29-37): key, and value (None: too generic).
PRODUCT_NAME_SYNONYM_MAP ==
    { [key |-> <<"b","e","l","l"," ","p","e","p","p","e","r">>,
       value |-> <<"P","e","p","p","e","r",","," ","B","e","l","l">>],
      [key |-> <<"t","o","m","a","t","o">>,
       value |-> <<"T","o","m","a","t","o","e","s">>],
      [key |-> <<"t","o","m","a","t","o","e","s">>,
       value |-> <<"T","o","m","a","t","o","e","s">>],
      [key |-> <<"c","a","t","f","i","s","h">>,
       value |-> <<"F","i","s","h",","," ","C","a","t","f","i","s","h"," ","(","f","r","e","s","h",")">>],
      [key |-> <<"y","a","m"," ","t","u","b","e","r">>,
       value |-> <<"Y","a","m">>],
      [key |-> <<"y","a","m">>,
       value |-> <<"Y","a","m">>],
      [key |-> <<"o","r","a","n","g","e">>,
       value |-> <<"O","r","a","n","g","e","s",","," ","S","w","e","e","t">>],
      [key |-> <<"m","a","i","z","e">>,
       value |-> <<"M","a","i","z","e"," ","(","w","h","i","t","e",")">>],
      [key |-> <<"c","o","r","n">>,
       value |-> <<"M","a","i","z","e"," ","(","w","h","i","t","e",")">>],
      [key |-> <<"o","n","i","o","n">>,
       value |-> <<"O","n","i","o","n","s">>],
      [key |-> <<"f","r","u","i","t">>,
       value |-> None],
      [key |-> <<"v","e","g","e","t","a","b","l","e">>,
       value |-> None],
      [key |-> <<"p","l","a","n","t","a","i","n">>,
       value |-> <<"P","l","a","n","t","a","i","n"," ","(","r","i","p","e"," ","/"," ","u","n","r","i","p","e",")">>],
      [key |-> <<"b","e","a","n","s">>,
       value |-> <<"B","e","a","n","s"," ","(","b","r","o","w","n",","," ","d","r","y"," ","/"," ","w","h","i","t","e",","," ","d","r","y"," ","/"," ","g","r","e","e","n",")">>],
      [key |-> <<"r","i","c","e">>,
       value |-> <<"R","i","c","e"," ","(","l","o","c","a","l"," ","s","o","l","d"," ","l","o","o","s","e"," ","/"," ","i","m","p","o","r","t","e","d",")">>] }

\* The order in which markets are preferred (src line 128).
market_priority == <<primary_target_market, <<"I","b","a","d","a","n">>, <<"L","a","g","o","s">>>>

\* dict.get(key): the value of the entry, None when the key has no entry.
SynonymKeys == {e.key : e \in PRODUCT_NAME_SYNONYM_MAP}

SynonymValue == [k \in SynonymKeys |-> (CHOOSE e \in PRODUCT_NAME_SYNONYM_MAP : e.key = k).value]

MapGet(key) == IF key \in SynonymKeys THEN SynonymValue[key] ELSE None

\* `key in PRODUCT_NAME_SYNONYM_MAP`
HasMapEntry(key) == key \in SynonymKeys

\* ------------------------------------------------- the reference table

\* A missing date cell (pandas NaT) and a missing or non-numeric cell (NaN).
NaT == 0
NaN == -1

\* Largest day of the month a row of the model is dated.
MaxDate == 2
\* Largest number of rows in the CSV file of the model.
MaxRows == 2

Dates == 1..MaxDate

Products ==
    { <<"T","o","m","a","t","o","e","s">>,
      <<"C","h","e","r","r","y"," ","t","o","m","a","t","o","e","s">>,
      <<"F","r","u","i","t">> }

Markets ==
    { <<"O","j","a"," ","O","b","a",","," ","A","k","u","r","e">>,
      <<"B","o","d","i","j","a",","," ","I","B","A","D","A","N">>,
      <<"M","i","l","e"," ","1","2"," ","L","a","g","o","s">>,
      <<"S","h","a","s","h","a"," ","M","a","r","k","e","t">> }

\* Unit of measure, one per product as in the World Bank sheet; a product
\* without unit has an empty (NaN) cell.
Kg == <<"k","g">>
Basket == <<"b","a","s","k","e","t">>
UnitOf(product) ==
    IF product = <<"T","o","m","a","t","o","e","s">> THEN Kg
    ELSE IF product = <<"F","r","u","i","t">> THEN None
    ELSE Basket

\* The markets a product is quoted at in the file: the staple at every
\* market, the variety at the primary target market and at a market outside
\* the priority list, the product group at one fallback market.
MarketsOf(product) ==
    IF product = <<"T","o","m","a","t","o","e","s">> THEN Markets
    ELSE IF product = <<"F","r","u","i","t">>
    THEN {<<"B","o","d","i","j","a",","," ","I","B","A","D","A","N">>}
    ELSE {<<"O","j","a"," ","O","b","a",","," ","A","k","u","r","e">>,
          <<"S","h","a","s","h","a"," ","M","a","r","k","e","t">>}

\* The price cell of the i-th line of the file: every line carries its own
\* price, so that a price in a result names the line it was read from.
PriceOfLine(i) == 2700 + 100 * i

\* The cells of a line that decide the lookup.  kind "row": product, market
\* and a numeric price are present (the date cell may be empty); the other
\* kinds are the lines that loading drops, whose remaining cells play no part.
CsvLines ==
    {l \in [kind : {"row"}, Product_Name : Products, Market_Name : Markets,
            Date : Dates \cup {NaT}] : l.Market_Name \in MarketsOf(l.Product_Name)}
    \cup [kind : {"bad_price", "no_product", "no_market"},
          Product_Name : {<<"F","r","u","i","t">>},
          Market_Name : {<<"S","h","a","s","h","a"," ","M","a","r","k","e","t">>},
          Date : {1}]

\* The row pd.read_csv and pd.to_numeric(errors='coerce') make of line i.
CsvRow(line, i) ==
    [Product_Name |-> IF line.kind = "no_product" THEN None ELSE line.Product_Name,
     Market_Name |-> IF line.kind = "no_market" THEN None ELSE line.Market_Name,
     Unit |-> UnitOf(line.Product_Name),
     Price |-> IF line.kind = "bad_price" THEN NaN ELSE PriceOfLine(i),
     Date |-> line.Date]

RECURSIVE SeqsUpTo(_, _)
SeqsUpTo(S, n) ==
    IF n = 0 THEN {<<>>}
    ELSE LET shorter == SeqsUpTo(S, n - 1)
         IN  shorter \cup {Append(s, x) : s \in {t \in shorter : Len(t) = n - 1}, x \in S}

\* What can be at the path WB_Nigeria_Food_Prices.csv.
FileStatus == {"ok", "not_found", "missing_column", "bad_date"}

CsvFiles ==
    {[status |-> "ok", rows |-> [i \in 1..Len(ls) |-> CsvRow(ls[i], i)]] : ls \in SeqsUpTo(CsvLines, MaxRows)}
    \cup {[status |-> s, rows |-> <<>>] : s \in FileStatus \ {"ok"}}

\* Series.max() over dates: NaT cells are skipped, NaT when nothing is left.
DateMax(dates) ==
    IF \E d \in dates : d # NaT
    THEN CHOOSE d \in dates : d # NaT /\ \A e \in dates : e = NaT \/ e <= d
    ELSE NaT

NoTable == [loaded |-> FALSE, rows |-> <<>>]

\* df_wb.dropna(subset=['Price', 'Product_Name', 'Market_Name'])
dropna(rows) ==
    SelectSeq(rows, LAMBDA r : r.Price # NaN /\ r.Product_Name # None /\ r.Market_Name # None)

\* load_world_bank_data(): the table, or None (NoTable) for each failure the
\* function catches.  The info message formats the latest date of a non-empty
\* table, which raises when every date is NaT and ends in the last except.
load_world_bank_data(file) ==
    IF file.status # "ok" THEN NoTable
    ELSE LET df_wb == dropna(file.rows)
             dates == {df_wb[i].Date : i \in 1..Len(df_wb)}
         IN  IF df_wb # <<>> /\ DateMax(dates) = NaT
             THEN NoTable
             ELSE [loaded |-> TRUE, rows |-> df_wb]

\* ------------------------------------------------------ fetch_market_price

Result(price, unit, location, date, trend) ==
    [price |-> price, unit |-> unit, location |-> location, date |-> date, trend |-> trend]

DataUnavailable == Result(NA, <<>>, DataUnavailableText, NA, <<>>)
TooGeneric == Result(NA, <<>>, TooGenericText, NA, <<>>)
ProductNotFound == Result(NA, <<>>, NotFoundText, NA, <<>>)
MarketNotFound(date_str) == Result(NA, <<>>, MarketNotFoundText, date_str, <<>>)
LookupFailed == Result(ErrorText, <<>>, LookupFailedText, NA, <<>>)

\* market_data None.
NoResult == Result(None, None, None, None, None)

\* Python truthiness of `mapped_name` (None and the empty text are false).
Truthy(v) == v # None /\ v # <<>>


\* A slip in the filter: str.contains in place of ==.
exact_match_filter_Contains(df, term) ==
    {i \in 1..Len(df) : Contains(Lower(df[i].Product_Name), term)}

\* df['Product_Name'].str.lower() == term, as the set of selected row positions.
exact_match_filter(df, term) ==
    {i \in 1..Len(df) : Lower(df[i].Product_Name) = term}

\* df['Product_Name'].str.contains(pat, case=False, na=False)
contains_filter(df, pat) ==
    {i \in 1..Len(df) : str_contains(df[i].Product_Name, pat)}

\* Lines 105-115 for a truthy mapped name: exact match on the mapped name,
\* then partial match.
mapped_match(df, mapped_name) ==
    LET exact_mapped == exact_match_filter(df, Lower(mapped_name))
    IN  IF exact_mapped # {} THEN exact_mapped ELSE contains_filter(df, mapped_name)


\* A slip in line 116: returning for a key the map does not hold instead of
\* a key it maps to None.
too_generic_return_KeyAbsent(df, label) ==
    /\ exact_match_filter(df, Lower(label)) = {}
    /\ ~HasMapEntry(Lower(label))

\* Line 116: the early return taken when the exact match is empty.
too_generic_return(df, label) ==
    LET mapped_name == MapGet(Lower(label))
    IN  /\ exact_match_filter(df, Lower(label)) = {}
        /\ ~Truthy(mapped_name)
        /\ mapped_name = None

\* A slip in lines 117-121: no broad partial match on the original label.
product_df_NoBroadFallback(df, label) ==
    LET search_term_for_wb == Lower(label)
        exact == exact_match_filter(df, search_term_for_wb)
        mapped_name == MapGet(search_term_for_wb)
    IN  IF exact = {} /\ Truthy(mapped_name)
        THEN mapped_match(df, mapped_name)
        ELSE exact

\* Lines 100-121: product_df as the set of selected row positions.
product_df(df, label) ==
    LET search_term_for_wb == Lower(label)
        exact == exact_match_filter(df, search_term_for_wb)
        mapped_name == MapGet(search_term_for_wb)
        after_map == IF exact = {} /\ Truthy(mapped_name)
                     THEN mapped_match(df, mapped_name)
                     ELSE exact
    IN  IF after_map = {} /\ MapGet(Lower(label)) # None
        THEN contains_filter(df, label)
        ELSE after_map


\* A slip in line 126: min() in place of max().
latest_date_Earliest(df, rows) ==
    LET dates == {df[i].Date : i \in rows}
    IN  IF \E d \in dates : d # NaT
        THEN CHOOSE d \in dates : d # NaT /\ \A e \in dates : e = NaT \/ d <= e
        ELSE NaT

\* Line 126: product_df['Date'].max()
latest_date(df, rows) == DateMax({df[i].Date : i \in rows})

\* Line 127: the rows of product_df dated latest_date.
latest_product_df(df, rows) ==
    LET latest == latest_date(df, rows)
    IN  {i \in rows : df[i].Date = latest}

\* Line 130-131: the rows of the slice whose market contains the name.
market_df_filtered(df, slice, market_name_to_check) ==
    {i \in slice : str_contains(df[i].Market_Name, market_name_to_check)}

\* DataFrame.iloc[0]: the first selected row in table order.
iloc0(rows) == CHOOSE i \in rows : \A j \in rows : i <= j


\* A slip in lines 129-136: no break, so the last preferred market found wins.
market_hit_LastPreferred(df, slice) ==
    IF \E k \in 1..Len(market_priority) : market_df_filtered(df, slice, market_priority[k]) # {}
    THEN CHOOSE k \in 1..Len(market_priority) :
            /\ market_df_filtered(df, slice, market_priority[k]) # {}
            /\ \A h \in (k + 1)..Len(market_priority) : market_df_filtered(df, slice, market_priority[h]) = {}
    ELSE 0

\* Lines 129-137: the position in market_priority through which a row is
\* found (0: none, general fallback).
market_hit(df, slice) ==
    IF \E k \in 1..Len(market_priority) : market_df_filtered(df, slice, market_priority[k]) # {}
    THEN CHOOSE k \in 1..Len(market_priority) :
            /\ market_df_filtered(df, slice, market_priority[k]) # {}
            /\ \A h \in 1..(k - 1) : market_df_filtered(df, slice, market_priority[h]) = {}
    ELSE 0

\* A slip in line 137: iloc[-1], the last row of the slice, as the general
\* fallback.
result_row_LastOfSlice(df, slice) ==
    LET k == market_hit(df, slice)
    IN  IF k # 0 THEN iloc0(market_df_filtered(df, slice, market_priority[k]))
        ELSE IF slice # {} THEN CHOOSE i \in slice : \A j \in slice : j <= i
        ELSE 0

\* Lines 129-137: result_row as a position of df (0: result_row is None).
result_row(df, slice) ==
    LET k == market_hit(df, slice)
    IN  IF k # 0 THEN iloc0(market_df_filtered(df, slice, market_priority[k]))
        ELSE IF slice # {} THEN iloc0(slice)
        ELSE 0

\* Lines 134-137: market_source_info.
market_source_info(df, slice) ==
    LET k == market_hit(df, slice)
        name == df[result_row(df, slice)].Market_Name
    IN  IF k # 0 /\ market_priority[k] = primary_target_market
        THEN name \o PrimaryTargetTag
        ELSE IF k # 0
        THEN name \o FallbackFromText \o primary_target_market \o <<")">>
        ELSE name \o GeneralFallbackText \o primary_target_market \o NotAvailableTag

\* Lines 138-144: the dictionary returned once a slice is selected.
found_result(df, slice, latest_date_str) ==
    LET row == result_row(df, slice)
    IN  IF row # 0
        THEN Result(FormatPrice(df[row].Price),
                    IF df[row].Unit # None THEN df[row].Unit ELSE <<>>,
                    market_source_info(df, slice),
                    latest_date_str,
                    TrendText \o latest_date_str \o <<")">>)
        ELSE MarketNotFound(latest_date_str)

\* What a call comes to: the value returned, or an exception reaching the
\* caller (the value then is the one the handler would have made of it).
Returned(value) == [raised |-> FALSE, value |-> value]
Raised(value) == [raised |-> TRUE, value |-> value]

\* Lines 101-144, the body of the try: what it returns, or that it raised.
\* NaT.strftime raises, which is how a selection without any date fails.
lookup_body(df, label) ==
    LET rows == product_df(df, label)
        latest == latest_date(df, rows)
    IN  IF too_generic_return(df, label) THEN Returned(TooGeneric)
        ELSE IF rows = {} THEN Returned(ProductNotFound)
        ELSE IF latest = NaT THEN Raised(LookupFailed)
        ELSE Returned(found_result(df, latest_product_df(df, rows), strftime(latest)))

\* A slip in line 145: a handler that lets the exception through.
try_except_Reraise(outcome) == outcome

\* Line 145: `except Exception` turns whatever the body raised into the
\* Error result.
try_except(outcome) == IF outcome.raised THEN Returned(LookupFailed) ELSE outcome


\* A slip in line 99: only `is None` is tested, not `.empty`.
fetch_market_price_NoEmptyCheck(label, file) ==
    LET df_world_bank == load_world_bank_data(file)
    IN  IF ~df_world_bank.loaded
        THEN Returned(DataUnavailable)
        ELSE try_except(lookup_body(df_world_bank.rows, label))

\* fetch_market_price(product_name_from_vision) over the file at the CSV path.
fetch_market_price(label, file) ==
    LET df_world_bank == load_world_bank_data(file)
    IN  IF ~df_world_bank.loaded \/ df_world_bank.rows = <<>>
        THEN Returned(DataUnavailable)
        ELSE try_except(lookup_body(df_world_bank.rows, label))

\* ------------------------------------------------ identify_product_via_web

UnknownViaAI == <<"U","n","k","n","o","w","n"," ","(","v","i","a"," ","A","I",")">>

\* Line 61: the keywords that make a label plausible.
plausible_keywords ==
    << <<"f","r","u","i","t">>,
       <<"v","e","g","e","t","a","b","l","e">>,
       <<"f","o","o","d">>,
       <<"p","l","a","n","t">>,
       <<"c","r","o","p">>,
       <<"f","i","s","h">>,
       <<"y","a","m">>,
       <<"p","l","a","n","t","a","i","n">>,
       <<"p","e","p","p","e","r">>,
       <<"t","o","m","a","t","o">>,
       <<"c","a","t","f","i","s","h">>,
       <<"c","a","s","s","a","v","a">>,
       <<"m","a","i","z","e">>,
       <<"o","k","r","a">>,
       <<"o","n","i","o","n">>,
       <<"g","a","r","l","i","c">>,
       <<"g","i","n","g","e","r">>,
       <<"c","a","b","b","a","g","e">>,
       <<"l","e","t","t","u","c","e">>,
       <<"m","a","n","g","o">>,
       <<"o","r","a","n","g","e">>,
       <<"p","i","n","e","a","p","p","l","e">>,
       <<"b","a","n","a","n","a">>,
       <<"p","a","w","p","a","w">> >>

\* Line 63: any(keyword.lower() in label.description.lower() ...)
is_plausible(description) ==
    \E n \in 1..Len(plausible_keywords) :
        Contains(Lower(description), Lower(plausible_keywords[n]))

\* Lines 62-65: the loop from label n on; best_label is a position in labels
\* (0: None).
RECURSIVE label_loop(_, _, _, _)
label_loop(labels, n, best_label, highest_score) ==
    IF n > Len(labels) THEN best_label
    ELSE IF is_plausible(labels[n].description) /\ labels[n].score > highest_score
         THEN label_loop(labels, n + 1, n, labels[n].score)
         ELSE IF best_label = 0 /\ labels[n].score > highest_score
         THEN label_loop(labels, n + 1, n, labels[n].score)
         ELSE label_loop(labels, n + 1, best_label, highest_score)

\* Line 61-65: best_label after the loop.
best_label_of(labels) == label_loop(labels, 1, 0, 0)

ProductInfo(product, condition, setting, confidence) ==
    [product |-> product, condition |-> condition, setting |-> setting, confidence |-> confidence]

\* product_info None.
NoProductInfo == ProductInfo(None, None, None, 0)

\* identify_product_via_web(image_bytes), given what the credentials, the
\* client and the label_detection call come to for these bytes.
identify_product_via_web(response) ==
    IF response.status # "ok" THEN NoProductInfo
    ELSE IF response.labels = <<>> THEN NoProductInfo
    ELSE LET best_label == best_label_of(response.labels)
         IN  IF best_label # 0
             THEN ProductInfo(Capitalize(response.labels[best_label].description),
                              UnknownViaAI, UnknownViaAI,
                              response.labels[best_label].score)
             ELSE NoProductInfo

\* Largest number of labels in a response, and the number of confidence
\* levels (a score is positive; level 1 is the lowest).
MaxLabels == 3
MaxScore == 2

Descriptions ==
    { <<"T","o","m","a","t","o">>,
      <<"N","a","t","u","r","a","l"," ","f","o","o","d","s">>,
      <<"R","e","d">> }

LabelAnnotations == [description : Descriptions, score : 1..MaxScore]

\* What the Vision call can come to: credentials or client missing, an API
\* error, or a list of labels.
VisionStatus == {"ok", "no_credentials", "client_failed", "api_error"}

VisionResponses ==
    {[status |-> "ok", labels |-> ls] : ls \in SeqsUpTo(LabelAnnotations, MaxLabels)}
    \cup {[status |-> s, labels |-> <<>>] : s \in VisionStatus \ {"ok"}}

NoResponse == [status |-> "none", labels |-> <<>>]

\* ------------------------------------------------ generate_campaign_content

\* str.replace(" ", "")
RemoveBlanks(s) == SelectSeq(s, LAMBDA c : c # " ")

\* str.split('(')[0]
RECURSIVE BeforeParen(_)
BeforeParen(s) ==
    IF s = <<>> \/ Head(s) = "(" THEN <<>> ELSE <<Head(s)>> \o BeforeParen(Tail(s))

\* " ".join(list)
RECURSIVE JoinBlank(_)
JoinBlank(list) ==
    IF list = <<>> THEN <<>>
    ELSE IF Len(list) = 1 THEN list[1]
    ELSE list[1] \o <<" ">> \o JoinBlank(Tail(list))

CampaignCopy(headline, body, cta, hashtags) ==
    [headline |-> headline, body |-> body, cta |-> cta, hashtags |-> hashtags]

\* campaign_copy None.
NoCopy == CampaignCopy(None, None, None, None)

\* generate_campaign_content(product_info, market_data) for a product_info
\* with a product (the only call, line 398, is made under that condition).
generate_campaign_content(product_info, market_data) ==
    LET product_name == product_info.product
        condition == product_info.condition
        location == market_data.location
        trend == market_data.trend
        headline0 == <<"P","r","e","m","i","u","m"," ">> \o condition \o <<" ">> \o product_name \o <<" ","-"," ","A","v","a","i","l","a","b","l","e"," ","N","o","w","!">>
        headline == IF location # <<>> /\ Contains(location, <<"A","k","u","r","e">>)
                    THEN headline0 \o <<" ","I","n"," ","A","k","u","r","e","!">>
                    ELSE headline0
        body0 == <<"L","o","o","k","i","n","g"," ","f","o","r"," ","t","o","p"," ">> \o Lower(condition) \o <<" ">> \o product_name \o <<"?"," ","L","o","o","k"," ","n","o"," ","f","u","r","t","h","e","r","!"," ">>
        body1 == IF trend # <<>> /\ trend # NA
                 THEN body0 \o <<"M","a","r","k","e","t"," ","t","r","e","n","d"," ","s","h","o","w","s",":"," ">> \o trend \o <<"."," ","S","e","c","u","r","e"," ","y","o","u","r","s"," ","t","o","d","a","y","!"," ">>
                 ELSE body0
        body == body1 \o <<"I","d","e","a","l"," ","f","o","r"," ","h","o","m","e"," ","u","s","e"," ","o","r"," ","b","u","s","i","n","e","s","s",".">>
        cta0 == <<"O","r","d","e","r"," ","y","o","u","r"," ">> \o product_name \o <<" ","n","o","w","!"," ","C","a","l","l","/","W","h","a","t","s","A","p","p"," ","[","Y","o","u","r"," ","P","h","o","n","e"," ","N","u","m","b","e","r","/","W","h","a","t","s","A","p","p","]",".">>
        cta == IF location # <<>> /\ location # NA
               THEN cta0 \o <<" ","P","i","c","k","u","p"," ","a","v","a","i","l","a","b","l","e"," ","n","e","a","r"," ">> \o Strip(BeforeParen(location)) \o <<".">>
               ELSE cta0
        hashtags_list ==
            << <<"#","F","a","r","m","F","r","e","s","h">>, <<"#">> \o RemoveBlanks(product_name), <<"#","A","k","u","r","e">>, <<"#","O","n","d","o","S","t","a","t","e">>,
               <<"#","N","a","i","j","a","M","a","d","e">>, <<"#","A","g","r","i","b","u","s","i","n","e","s","s">>, <<"#","S","u","p","p","o","r","t","L","o","c","a","l">> >>
            \o (IF location # <<>> /\ Contains(location, <<"S","h","a","s","h","a">>) THEN << <<"#","S","h","a","s","h","a","M","a","r","k","e","t">> >> ELSE <<>>)
            \o (IF location # <<>> /\ Contains(location, <<"E","r","e","k","e","s","a","n">>) THEN << <<"#","E","r","e","k","e","s","a","n","M","a","r","k","e","t">> >> ELSE <<>>)
            \o (IF location # <<>> /\ Contains(location, <<"O","j","a"," ","O","b","a">>) THEN << <<"#","O","j","a","O","b","a">> >> ELSE <<>>)
    IN  CampaignCopy(headline, body, cta, JoinBlank(hashtags_list))

\* ------------------------------------------------------ the sales sheet

\* str.replace(sign, '', regex=False)
RemoveChar(s, sign) == SelectSeq(s, LAMBDA c : c # sign)

IsDigit(c) == \E d \in 1..10 : DigitChars[d] = c

DigitValue(c) == (CHOOSE d \in 1..10 : DigitChars[d] = c) - 1

RECURSIVE NumberOf(_)
NumberOf(s) == IF s = <<>> THEN 0 ELSE 10 * NumberOf(SubSeq(s, 1, Len(s) - 1)) + DigitValue(s[Len(s)])

\* pd.to_numeric(text, errors='coerce') for whole numbers: NaN for anything
\* that is not a number.
to_numeric(s) ==
    IF s # <<>> /\ \A n \in 1..Len(s) : IsDigit(s[n]) THEN NumberOf(s) ELSE NaN

\* Lines 453-459: Revenue_Clean of one cell.
Revenue_Clean(cell) == to_numeric(RemoveChar(RemoveChar(cell, "₦"), ","))

\* total_sales_revenue and top_sales_products None.
NoTotal == [some |-> FALSE, value |-> 0]
NoTop == [some |-> FALSE, rows |-> <<>>]

\* Line 470: how many products the summary holds.
TopN == 5

\* sort_values(by="Revenue_Clean", ascending=False).head(n) over the row
\* positions in `rest` (rows of equal revenue in sheet order).
RECURSIVE sort_head(_, _, _)
sort_head(rows, rest, n) ==
    IF n = 0 \/ rest = {} THEN <<>>
    ELSE LET top == CHOOSE i \in rest :
                        \A j \in rest :
                            \/ Revenue_Clean(rows[j].Revenue) < Revenue_Clean(rows[i].Revenue)
                            \/ (Revenue_Clean(rows[j].Revenue) = Revenue_Clean(rows[i].Revenue) /\ i <= j)
         IN  <<rows[top]>> \o sort_head(rows, rest \ {top}, n - 1)

RECURSIVE SumOver(_, _)
SumOver(rows, rest) ==
    IF rest = {} THEN 0
    ELSE LET i == CHOOSE i \in rest : TRUE
         IN  Revenue_Clean(rows[i].Revenue) + SumOver(rows, rest \ {i})

\* A slip in line 470: head(5) without the sort, the first rows in sheet
\* order.
data_highlights_Unsorted(df) ==
    IF ~df.some THEN [total |-> NoTotal, top |-> NoTop]
    ELSE IF ~df.has_columns THEN [total |-> NoTotal, top |-> NoTop]
    ELSE LET parsed == {i \in 1..Len(df.rows) : Revenue_Clean(df.rows[i].Revenue) # NaN}
             kept == SelectSeq(df.rows, LAMBDA row : Revenue_Clean(row.Revenue) # NaN)
         IN  IF parsed = {} THEN [total |-> NoTotal, top |-> NoTop]
             ELSE [total |-> [some |-> TRUE, value |-> SumOver(df.rows, parsed)],
                   top |-> [some |-> TRUE,
                            rows |-> SubSeq(kept, 1, IF Len(kept) < TopN THEN Len(kept) ELSE TopN)]]

\* Lines 444-488: what Data Highlights stores for the sheet df.
data_highlights(df) ==
    IF ~df.some THEN [total |-> NoTotal, top |-> NoTop]
    ELSE IF ~df.has_columns THEN [total |-> NoTotal, top |-> NoTop]
    ELSE LET parsed == {i \in 1..Len(df.rows) : Revenue_Clean(df.rows[i].Revenue) # NaN}
         IN  IF parsed = {} THEN [total |-> NoTotal, top |-> NoTop]
             ELSE [total |-> [some |-> TRUE, value |-> SumOver(df.rows, parsed)],
                   top |-> [some |-> TRUE, rows |-> sort_head(df.rows, parsed, TopN)]]

\* ------------------------------------------------------ the script run

data_keys ==
    {"df", "pil_image", "image_bytes", "product_info", "market_data", "campaign_copy",
     "top_sales_products", "total_sales_revenue"}
editable_keys == {"editable_headline", "editable_body", "editable_cta", "editable_hashtags"}
uploader_keys == {"image_uploader_key", "file_uploader_key"}

\* An uploader without file, st.session_state.df / pil_image / image_bytes None.
NoFile == [name |-> "", content |-> ""]
NoFrame == [some |-> FALSE, uploaded_filename |-> "", has_columns |-> FALSE, rows |-> <<>>]
NoImage == [filename |-> "", content |-> ""]
NoBytes == ""

\* The value None of every key that is set to None or deleted.
NoneValues ==
    [df |-> NoFrame, pil_image |-> NoImage, image_bytes |-> NoBytes,
     product_info |-> NoProductInfo, market_data |-> NoResult, campaign_copy |-> NoCopy,
     top_sales_products |-> NoTop, total_sales_revenue |-> NoTotal,
     editable_headline |-> None, editable_body |-> None,
     editable_cta |-> None, editable_hashtags |-> None]

\* st.session_state of a session whose script has not run yet: no key; the
\* field `keys` holds the keys present, a key that is not present has the
\* value None here.
EmptySession ==
    [keys |-> {}, image_uploader_key |-> 0, file_uploader_key |-> 1,
     df |-> NoFrame, pil_image |-> NoImage, image_bytes |-> NoBytes,
     product_info |-> NoProductInfo, market_data |-> NoResult, campaign_copy |-> NoCopy,
     top_sales_products |-> NoTop, total_sales_revenue |-> NoTotal,
     editable_headline |-> None, editable_body |-> None,
     editable_cta |-> None, editable_hashtags |-> None]

\* del st.session_state[key] for the keys of ks that are present.
Del(s, ks) ==
    [f \in DOMAIN s |->
        IF f = "keys" THEN s.keys \ ks
        ELSE IF f \in ks THEN NoneValues[f]
        ELSE s[f]]

\* st.session_state[key] = value
Put(s, key, value) == [[s EXCEPT ![key] = value] EXCEPT !.keys = @ \cup {key}]

\* A script run so far: the session state, the exception that ended the run
\* ("" while it runs), and what the run did.
Running(s) ==
    [s |-> s, error |-> "", accepted |-> FALSE, identify_called |-> FALSE, fetch_called |-> FALSE]

\* Reading st.session_state.<key> of a key that is not present raises
\* AttributeError, which ends the run.
AttributeError(r) == [r EXCEPT !.error = "AttributeError"]

\* Lines 297-300: keys not present are set to None, the uploader keys to
\* their first value.
init_session_state(s) ==
    [s EXCEPT !.keys = @ \cup data_keys \cup editable_keys \cup uploader_keys]

\* Lines 368-376.
process_image_upload(r, uploaded_image) ==
    IF r.error # "" \/ uploaded_image = NoFile THEN r
    ELSE IF ~({"image_bytes", "pil_image"} \subseteq r.s.keys) THEN AttributeError(r)
    ELSE IF r.s.image_bytes = NoBytes
            \/ (r.s.pil_image # NoImage /\ r.s.pil_image.filename # uploaded_image.name)
    THEN IF uploaded_image.content = "corrupt"
         THEN [r EXCEPT !.s = Put(Put(r.s, "pil_image", NoImage), "image_bytes", NoBytes)]
         ELSE [r EXCEPT
                 !.s = Del(Put(Put(r.s, "pil_image",
                                   [filename |-> uploaded_image.name,
                                    content |-> uploaded_image.content]),
                               "image_bytes", uploaded_image.content),
                           {"product_info", "market_data", "campaign_copy",
                            "top_sales_products", "total_sales_revenue"} \cup editable_keys),
                 !.accepted = TRUE]
    ELSE r

\* Lines 377-389.
process_file_upload(r, uploaded_file) ==
    IF r.error # "" \/ uploaded_file = NoFile THEN r
    ELSE IF "df" \notin r.s.keys THEN AttributeError(r)
    ELSE IF ~r.s.df.some \/ r.s.df.uploaded_filename # uploaded_file.name
    THEN IF uploaded_file.content.readable
         THEN [r EXCEPT
                 !.s = Del(Put(r.s, "df",
                               [some |-> TRUE, uploaded_filename |-> uploaded_file.name,
                                has_columns |-> uploaded_file.content.has_columns,
                                rows |-> uploaded_file.content.rows]),
                           {"top_sales_products", "total_sales_revenue"})]
         ELSE [r EXCEPT !.s = Put(r.s, "df", NoFrame)]
    ELSE r

\* Lines 392-393.
run_identification(r, response) ==
    IF r.error # "" THEN r
    ELSE IF "image_bytes" \notin r.s.keys THEN AttributeError(r)
    ELSE IF r.s.image_bytes = NoBytes THEN r
    ELSE IF "product_info" \notin r.s.keys THEN AttributeError(r)
    ELSE IF r.s.product_info # NoProductInfo THEN r
    ELSE [r EXCEPT !.s = Put(r.s, "product_info", identify_product_via_web(response)),
                   !.identify_called = TRUE]

\* Lines 394-395.
run_lookup(r, file) ==
    IF r.error # "" THEN r
    ELSE IF "product_info" \notin r.s.keys THEN AttributeError(r)
    ELSE IF r.s.product_info = NoProductInfo \/ r.s.product_info.product = <<>> THEN r
    ELSE IF "market_data" \notin r.s.keys THEN AttributeError(r)
    ELSE IF r.s.market_data # NoResult THEN r
    ELSE LET outcome == fetch_market_price(r.s.product_info.product, file)
         IN  IF outcome.raised
             THEN [r EXCEPT !.error = "Exception", !.fetch_called = TRUE]
             ELSE [r EXCEPT !.s = Put(r.s, "market_data", outcome.value),
                            !.fetch_called = TRUE]

\* A slip in lines 396-397: the price of market_data is not looked at.
run_generation_NoPriceCheck(r) ==
    IF r.error # "" THEN r
    ELSE IF "product_info" \notin r.s.keys THEN AttributeError(r)
    ELSE IF r.s.product_info = NoProductInfo THEN r
    ELSE IF "market_data" \notin r.s.keys THEN AttributeError(r)
    ELSE IF r.s.market_data = NoResult THEN r
    ELSE IF "campaign_copy" \notin r.s.keys THEN AttributeError(r)
    ELSE IF r.s.campaign_copy # NoCopy THEN r
    ELSE LET copy == generate_campaign_content(r.s.product_info, r.s.market_data)
         IN  [r EXCEPT
                !.s = Put(Put(Put(Put(Put(r.s, "campaign_copy", copy),
                                          "editable_headline", copy.headline),
                                      "editable_body", copy.body),
                                  "editable_cta", copy.cta),
                              "editable_hashtags", copy.hashtags)]

\* Lines 396-402.
run_generation(r) ==
    IF r.error # "" THEN r
    ELSE IF "product_info" \notin r.s.keys THEN AttributeError(r)
    ELSE IF r.s.product_info = NoProductInfo THEN r
    ELSE IF "market_data" \notin r.s.keys THEN AttributeError(r)
    ELSE IF r.s.market_data = NoResult \/ r.s.market_data.price \in {NA, ErrorText} THEN r
    ELSE IF "campaign_copy" \notin r.s.keys THEN AttributeError(r)
    ELSE IF r.s.campaign_copy # NoCopy THEN r
    ELSE LET copy == generate_campaign_content(r.s.product_info, r.s.market_data)
         IN  [r EXCEPT
                !.s = Put(Put(Put(Put(Put(r.s, "campaign_copy", copy),
                                          "editable_headline", copy.headline),
                                      "editable_body", copy.body),
                                  "editable_cta", copy.cta),
                              "editable_hashtags", copy.hashtags)]

\* Lines 405-539: the tabs; Data Highlights (lines 444-488) stores the sales
\* summary, the rest reads the session state.
render_tabs(r) ==
    IF r.error # "" THEN r
    ELSE IF ~({"pil_image", "df", "product_info", "market_data", "campaign_copy"} \subseteq r.s.keys)
    THEN AttributeError(r)
    ELSE LET highlights == data_highlights(r.s.df)
         IN  [r EXCEPT !.s = Put(Put(r.s, "total_sales_revenue", highlights.total),
                                 "top_sales_products", highlights.top)]

\* What label detection answers for the bytes of an image; the service may
\* fail on any call.
LabelsOf(content) ==
    IF content = "tomato" THEN << [description |-> <<"T","o","m","a","t","o">>, score |-> 2],
                                  [description |-> <<"R","e","d">>, score |-> 1] >>
    ELSE IF content = "fruit" THEN << [description |-> <<"F","r","u","i","t">>, score |-> 2] >>
    ELSE <<>>

VisionResponse(content, api_ok) ==
    IF api_ok THEN [status |-> "ok", labels |-> LabelsOf(content)]
    ELSE [status |-> "api_error", labels |-> <<>>]

\* Lines 292-539 after the widgets are read and the Reset button was not
\* pressed: one run of the script from top to bottom.
script_run(s, uploaded_image, uploaded_file, file, api_ok) ==
    LET r0 == Running(init_session_state(s))
        r1 == process_image_upload(r0, uploaded_image)
        r2 == process_file_upload(r1, uploaded_file)
        r3 == run_identification(r2, VisionResponse(r2.s.image_bytes, api_ok))
        r4 == run_lookup(r3, file)
        r5 == run_generation(r4)
    IN  render_tabs(r5)

\* A slip in lines 360-362: the handler renews the uploader keys without
\* deleting the data and editable keys.
reset_run_KeepData(s, file, api_ok) ==
    LET s0 == init_session_state(s)
        s1 == [s0 EXCEPT !.image_uploader_key = @ + 1, !.file_uploader_key = @ + 1]
    IN  script_run(s1, NoFile, NoFile, file, api_ok)

\* Lines 359-365: the Reset button was pressed: the data and editable keys
\* are deleted, both uploaders get a new key (and so hold no file), and
\* st.rerun() runs the script again from the top.
reset_run(s, file, api_ok) ==
    LET s0 == init_session_state(s)
        s1 == [Del(s0, data_keys \cup editable_keys) EXCEPT
                  !.image_uploader_key = @ + 1, !.file_uploader_key = @ + 1]
    IN  script_run(s1, NoFile, NoFile, file, api_ok)

\* ------------------------------------------------------------- state

VARIABLES
    wb_file,                   \* what is at the CSV path
    product_name_from_vision,  \* the argument of the lookup, None before it
    market_price,              \* the dictionary the lookup returned
    lookup_raised,             \* the lookup ended in an exception
    vision_response,           \* what label detection answers
    product_info_val,          \* what identify_product_via_web returned
    session_state,             \* st.session_state at the end of the last run
    image_uploader,            \* the file in the image uploader
    file_uploader,             \* the file in the sheet uploader
    run_error,                 \* the exception that ended the last run, "" if none
    identify_calls,            \* calls of identify_product_via_web since the last image upload or Reset
    fetch_calls,               \* calls of fetch_market_price since the last image upload or Reset
    sales_sheet,               \* the sheet Data Highlights is run on
    sales_summary              \* what Data Highlights stored for it

lookup_vars == <<product_name_from_vision, market_price, lookup_raised>>
identify_vars == <<vision_response, product_info_val>>
session_vars == <<session_state, image_uploader, file_uploader, run_error, identify_calls, fetch_calls>>

sales_vars == <<sales_sheet, sales_summary>>

vars == <<wb_file, lookup_vars, identify_vars, session_vars, sales_vars>>

\* Labels handed to the lookup: a product of the table as Vision spells it,
\* in capitals, with a trailing blank, a synonym-map key with a mapped name,
\* a key mapped to None, and a label the map does not know.
Labels ==
    { <<"T","o","m","a","t","o","e","s">>, <<"T","O","M","A","T","O","E","S">>, <<"T","o","m","a","t","o","e","s"," ">>, <<"t","o","m","a","t","o">>, <<"F","r","u","i","t">>, <<"C","a","s","s","a","v","a">> }

LookupIdle ==
    /\ product_name_from_vision = None
    /\ market_price = NoResult
    /\ lookup_raised = FALSE

IdentifyIdle ==
    /\ vision_response = NoResponse
    /\ product_info_val = NoProductInfo

SessionIdle ==
    /\ session_state = EmptySession
    /\ image_uploader = NoFile
    /\ file_uploader = NoFile
    /\ run_error = ""
    /\ identify_calls = 0
    /\ fetch_calls = 0

\* No sheet analysed yet.
NotAnalysed == [ran |-> FALSE, total |-> NoTotal, top |-> NoTop]

HighlightsIdle ==
    /\ sales_sheet = NoFrame
    /\ sales_summary = NotAnalysed

\* ------------------------------------------------- lookup on its own

LookupInit ==
    /\ wb_file \in CsvFiles
    /\ LookupIdle
    /\ IdentifyIdle
    /\ SessionIdle
    /\ HighlightsIdle

\* One call fetch_market_price(label).
Lookup(label) ==
    /\ product_name_from_vision = None
    /\ product_name_from_vision' = label
    /\ market_price' = fetch_market_price(label, wb_file).value
    /\ lookup_raised' = fetch_market_price(label, wb_file).raised
    /\ UNCHANGED <<wb_file, identify_vars, session_vars, sales_vars>>

LookupNext == \E label \in Labels : Lookup(label)

SpecLookup == LookupInit /\ [][LookupNext]_vars

\* ------------------------------------- lookup through the synonym map

\* Product names of tables that hold no row of the label itself: the
\* canonical name of maize, a longer name that contains it, the name written
\* without parentheses, and names that contain a label.
SynonymProducts ==
    { <<"M","a","i","z","e"," ","(","w","h","i","t","e",")">>,
      <<"M","a","i","z","e"," ","(","w","h","i","t","e",")"," ","-"," ","R","e","t","a","i","l">>,
      <<"M","a","i","z","e"," ","w","h","i","t","e">>,
      <<"S","w","e","e","t"," ","c","o","r","n">>,
      <<"C","h","e","r","r","y"," ","t","o","m","a","t","o","e","s">>,
      <<"F","r","u","i","t"," ","j","u","i","c","e">>,
      <<"C","a","s","s","a","v","a"," ","f","l","o","u","r">> }

\* Labels Vision hands over: keys with a canonical name ("corn", "maize",
\* "tomato"), a key mapped to None, and a label without entry.
SynonymLabels ==
    { <<"C","o","r","n">>, <<"M","a","i","z","e">>, <<"T","o","m","a","t","o">>, <<"F","r","u","i","t">>, <<"C","a","s","s","a","v","a">> }

\* Lines of these tables: every product at the primary target market, dated
\* or with an empty date cell.
SynonymLines ==
    [kind : {"row"}, Product_Name : SynonymProducts,
     Market_Name : {<<"O","j","a"," ","O","b","a",","," ","A","k","u","r","e">>}, Date : {NaT, 1}]

SynonymFiles ==
    {[status |-> "ok", rows |-> [i \in 1..Len(ls) |-> CsvRow(ls[i], i)]] : ls \in SeqsUpTo(SynonymLines, MaxRows)}

SynonymInit ==
    /\ wb_file \in SynonymFiles
    /\ LookupIdle
    /\ IdentifyIdle
    /\ SessionIdle
    /\ HighlightsIdle

SynonymNext == \E label \in SynonymLabels : Lookup(label)

SpecSynonym == SynonymInit /\ [][SynonymNext]_vars

\* --------------------------------------------- identification on its own

IdentifyInit ==
    /\ wb_file = [status |-> "not_found", rows |-> <<>>]
    /\ IdentifyIdle
    /\ LookupIdle
    /\ SessionIdle
    /\ HighlightsIdle

\* One call identify_product_via_web(image_bytes).
Identify(response) ==
    /\ vision_response = NoResponse
    /\ vision_response' = response
    /\ product_info_val' = identify_product_via_web(response)
    /\ UNCHANGED <<wb_file, lookup_vars, session_vars, sales_vars>>

IdentifyNext == \E response \in VisionResponses : Identify(response)

SpecIdentify == IdentifyInit /\ [][IdentifyNext]_vars

\* --------------------------------------------- Data Highlights on its own

\* Most rows of a sales sheet.
MaxSheetRows == 6

\* Revenue cells of a sheet: with currency sign and thousands separator,
\* plain, the same amount as the first one written plainly, and a text that
\* is no number.
RevenueCells ==
    { <<"₦","1",",","2","0","0">>, <<"4","5","0","0">>, <<"1","2","0","0">>, <<"n","/","a">> }

\* The row of line i of a sheet: every line names its own product.
SheetRow(cell, i) == [Product |-> <<"P">> \o Digits(i), Revenue |-> cell]

\* The sheets Data Highlights is run on: with Product and Revenue columns
\* and up to MaxSheetRows rows, or without these columns.
SalesSheets ==
    {[some |-> TRUE, uploaded_filename |-> "sales.csv", has_columns |-> TRUE,
      rows |-> [i \in 1..Len(cells) |-> SheetRow(cells[i], i)]] :
        cells \in SeqsUpTo(RevenueCells, MaxSheetRows)}
    \cup {[some |-> TRUE, uploaded_filename |-> "costs.csv", has_columns |-> FALSE, rows |-> <<>>]}

HighlightsInit ==
    /\ wb_file = [status |-> "not_found", rows |-> <<>>]
    /\ LookupIdle
    /\ IdentifyIdle
    /\ SessionIdle
    /\ sales_sheet \in SalesSheets
    /\ sales_summary = NotAnalysed

\* One pass of lines 444-488 over st.session_state.df.
Highlights ==
    /\ ~sales_summary.ran
    /\ sales_summary' = [ran |-> TRUE,
                         total |-> data_highlights(sales_sheet).total,
                         top |-> data_highlights(sales_sheet).top]
    /\ UNCHANGED <<wb_file, lookup_vars, identify_vars, session_vars, sales_sheet>>

HighlightsNext == Highlights

SpecHighlights == HighlightsInit /\ [][HighlightsNext]_vars

\* ------------------------------------------------------------ the session

\* Most presses of Reset, and most calls counted, in a session of the model.
MaxResets == 1
MaxCalls == 2

\* The image files a user has at hand: two names, and bytes that show a
\* tomato, show fruit, show nothing Vision has a label for, or cannot be
\* decoded.
ImageFiles == [name : {"a.png", "b.png"}, content : {"tomato", "fruit", "blank", "corrupt"}]

Line(product, market, date) ==
    [kind |-> "row", Product_Name |-> product, Market_Name |-> market, Date |-> date]

OkFile(lines) == [status |-> "ok", rows |-> [i \in 1..Len(lines) |-> CsvRow(lines[i], i)]]

\* The CSV files of the sessions of the model: tomatoes in two markets; a
\* tomato row without date beside a dated fruit row; no file.
SessionFiles ==
    { OkFile(<<Line(<<"T","o","m","a","t","o","e","s">>, <<"S","h","a","s","h","a"," ","M","a","r","k","e","t">>, 2), Line(<<"T","o","m","a","t","o","e","s">>, <<"M","i","l","e"," ","1","2"," ","L","a","g","o","s">>, 1)>>),
      OkFile(<<Line(<<"T","o","m","a","t","o","e","s">>, <<"O","j","a"," ","O","b","a",","," ","A","k","u","r","e">>, NaT), Line(<<"F","r","u","i","t">>, <<"O","j","a"," ","O","b","a",","," ","A","k","u","r","e">>, 1)>>),
      [status |-> "not_found", rows |-> <<>>] }

\* The sheets a user has at hand: one with Product and Revenue columns, one
\* without, one that cannot be read.
SheetFiles ==
    { [name |-> "sales.csv",
       content |-> [readable |-> TRUE, has_columns |-> TRUE,
                    rows |-> << [Product |-> <<"Y","a","m">>, Revenue |-> <<"₦","1",",","2","0","0">>],
                                [Product |-> <<"F","i","s","h">>, Revenue |-> <<"n","/","a">>],
                                [Product |-> <<"T","o","m","a","t","o","e","s">>, Revenue |-> <<"4","5","0","0">>] >>]],
      [name |-> "costs.csv",
       content |-> [readable |-> TRUE, has_columns |-> FALSE, rows |-> <<>>]],
      [name |-> "broken.xlsx",
       content |-> [readable |-> FALSE, has_columns |-> FALSE, rows |-> <<>>]] }

\* The state a run leaves behind; the two counters start again with a run
\* that follows the upload of an image.
Ran(r, image_uploaded) ==
    /\ session_state' = r.s
    /\ run_error' = r.error
    /\ identify_calls' = (IF image_uploaded THEN 0 ELSE identify_calls) + (IF r.identify_called THEN 1 ELSE 0)
    /\ fetch_calls' = (IF image_uploaded THEN 0 ELSE fetch_calls) + (IF r.fetch_called THEN 1 ELSE 0)
    /\ UNCHANGED <<wb_file, lookup_vars, identify_vars, sales_vars>>

WithinBounds == identify_calls < MaxCalls /\ fetch_calls < MaxCalls

\* The page is opened: the script runs once on an empty session state.
Init ==
    /\ wb_file \in SessionFiles
    /\ LookupIdle
    /\ IdentifyIdle
    /\ session_state = script_run(EmptySession, NoFile, NoFile, wb_file, TRUE).s
    /\ image_uploader = NoFile
    /\ file_uploader = NoFile
    /\ run_error = ""
    /\ identify_calls = 0
    /\ fetch_calls = 0
    /\ HighlightsIdle

\* The user puts a file into the image uploader; the script runs.
UploadImage(file, api_ok) ==
    /\ WithinBounds
    /\ file # image_uploader
    /\ image_uploader' = file
    /\ UNCHANGED file_uploader
    /\ Ran(script_run(session_state, file, file_uploader, wb_file, api_ok), TRUE)

\* The user removes the file from the image uploader; the script runs.
RemoveImage(api_ok) ==
    /\ WithinBounds
    /\ image_uploader # NoFile
    /\ image_uploader' = NoFile
    /\ UNCHANGED file_uploader
    /\ Ran(script_run(session_state, NoFile, file_uploader, wb_file, api_ok), FALSE)

\* The user puts a file into the sheet uploader; the script runs.
UploadSheet(file, api_ok) ==
    /\ WithinBounds
    /\ file # file_uploader
    /\ file_uploader' = file
    /\ UNCHANGED image_uploader
    /\ Ran(script_run(session_state, image_uploader, file, wb_file, api_ok), FALSE)

\* The user removes the file from the sheet uploader; the script runs.
RemoveSheet(api_ok) ==
    /\ WithinBounds
    /\ file_uploader # NoFile
    /\ file_uploader' = NoFile
    /\ UNCHANGED image_uploader
    /\ Ran(script_run(session_state, image_uploader, NoFile, wb_file, api_ok), FALSE)

\* Any other interaction (a download button, a widget that changes nothing
\* the script reads): the script runs again.
Rerun(api_ok) ==
    /\ WithinBounds
    /\ UNCHANGED <<image_uploader, file_uploader>>
    /\ Ran(script_run(session_state, image_uploader, file_uploader, wb_file, api_ok), FALSE)

EditedText == <<"F","r","e","s","h"," ","t","o","m","a","t","o","e","s"," ","t","o","d","a","y","!">>

\* The user edits the headline in its text area (shown when the last run
\* got to the tabs with a campaign copy); the widget stores the text under
\* its key and the script runs.
EditHeadline(api_ok) ==
    /\ WithinBounds
    /\ run_error = ""
    /\ session_state.campaign_copy # NoCopy
    /\ session_state.editable_headline # EditedText
    /\ UNCHANGED <<image_uploader, file_uploader>>
    /\ Ran(script_run(Put(session_state, "editable_headline", EditedText),
                      image_uploader, file_uploader, wb_file, api_ok), FALSE)

\* The user presses "Reset All / Start Over".
ResetAll(api_ok) ==
    /\ session_state.image_uploader_key < MaxResets
    /\ image_uploader' = NoFile
    /\ file_uploader' = NoFile
    /\ session_state' = reset_run(session_state, wb_file, api_ok).s
    /\ run_error' = reset_run(session_state, wb_file, api_ok).error
    /\ identify_calls' = 0
    /\ fetch_calls' = 0
    /\ UNCHANGED <<wb_file, lookup_vars, identify_vars, sales_vars>>

Next ==
    \/ \E file \in ImageFiles, api_ok \in BOOLEAN : UploadImage(file, api_ok)
    \/ \E api_ok \in BOOLEAN : RemoveImage(api_ok)
    \/ \E file \in SheetFiles, api_ok \in BOOLEAN : UploadSheet(file, api_ok)
    \/ \E api_ok \in BOOLEAN : RemoveSheet(api_ok)
    \/ \E api_ok \in BOOLEAN : Rerun(api_ok)
    \/ \E api_ok \in BOOLEAN : EditHeadline(api_ok)
    \/ \E api_ok \in BOOLEAN : ResetAll(api_ok)

Spec == Init /\ [][Next]_vars

\* ================================================================ claims
\* Claims about fetch_market_price, over SpecLookup.

\* The call has been made.
Looked == product_name_from_vision # None

\* The table the call works on, and whether it got past line 99.
Table == load_world_bank_data(wb_file).rows
TableUsable == load_world_bank_data(wb_file).loaded /\ Table # <<>>

\* The rows whose product name equals the label case-insensitively.
EqualRows ==
    {i \in 1..Len(Table) : Lower(Table[i].Product_Name) = Lower(product_name_from_vision)}

IsFound(result) == result.price \notin {NA, ErrorText, None}

StartsWith(text, prefix) ==
    Len(text) >= Len(prefix) /\ SubSeq(text, 1, Len(prefix)) = prefix

\* The result carries price, unit, date and market of row i of the table.
ResultOfRow(result, i) ==
    /\ result.price = FormatPrice(Table[i].Price)
    /\ result.unit = (IF Table[i].Unit = None THEN <<>> ELSE Table[i].Unit)
    /\ result.date = strftime(Table[i].Date)
    /\ StartsWith(result.location, Table[i].Market_Name)

\* C1 (as claimed): a label without synonym-map entry that equals no product
\* name of a non-empty table gets the ProductNotFound result.
C1_UnmappedLabelIsProductNotFound ==
    (Looked /\ TableUsable /\ ~HasMapEntry(Lower(product_name_from_vision)) /\ EqualRows = {})
        => market_price = ProductNotFound

\* C2 (as claimed): a label the synonym map maps to None gets the TooGeneric
\* result for every non-empty table, a table with a row of that name included.
C2_NullMappedAlwaysTooGeneric ==
    (Looked /\ TableUsable /\ HasMapEntry(Lower(product_name_from_vision))
            /\ MapGet(Lower(product_name_from_vision)) = None)
        => market_price = TooGeneric

\* C2 (amended): a label the synonym map maps to None gets the TooGeneric
\* result for every non-empty table without a row whose product name equals
\* the label case-insensitively; when such a row exists the exact match comes
\* first and the result is not TooGeneric.
C2_NullMappedTooGenericUnlessExactRow ==
    (Looked /\ TableUsable /\ HasMapEntry(Lower(product_name_from_vision))
            /\ MapGet(Lower(product_name_from_vision)) = None)
        => /\ ~lookup_raised
           /\ (EqualRows = {}) => (market_price = TooGeneric)
           /\ (EqualRows # {}) => (market_price # TooGeneric)

C2_Witness ==
    /\ Looked /\ TableUsable
    /\ product_name_from_vision = <<"F","r","u","i","t">>
    /\ EqualRows = {}
    /\ market_price = TooGeneric

\* C3 (as claimed): a label that equals the product name of some row gets a
\* Found result with price, unit and date of one row of that product.
C3_ExactLabelAlwaysFound ==
    (Looked /\ TableUsable /\ EqualRows # {})
        => /\ IsFound(market_price)
           /\ \E i \in EqualRows : ResultOfRow(market_price, i)

\* C3 (amended): a label that equals the product name of some row gets, when
\* at least one of these rows has a date, a Found result with price, unit and
\* date of one single row of that product, and the Error result when none of
\* them has a date; rows of other products never contribute.
C3_ExactLabelFoundFromOneRow ==
    (Looked /\ TableUsable /\ EqualRows # {})
        => IF \E i \in EqualRows : Table[i].Date # NaT
           THEN /\ IsFound(market_price)
                /\ \E i \in EqualRows : ResultOfRow(market_price, i)
           ELSE market_price = LookupFailed

C3_Witness ==
    /\ Looked /\ TableUsable
    /\ EqualRows # {}
    /\ \E j \in 1..Len(Table) : j \notin EqualRows /\ Table[j].Date # NaT
    /\ \E i \in EqualRows : Table[i].Date # NaT /\ ResultOfRow(market_price, i)

\* The rows the match steps selected (the argument of the date selection).
MatchedRows == product_df(Table, product_name_from_vision)

\* C4: for a non-empty set of matched rows the record returned is dated with
\* the latest date among them and comes from a row of that date, also when a
\* row of a preferred market exists only at an earlier date.
C4_LatestDateWins ==
    (Looked /\ TableUsable /\ \E i \in MatchedRows : Table[i].Date # NaT)
        => \E i \in MatchedRows :
              /\ Table[i].Date # NaT
              /\ \A j \in MatchedRows : Table[j].Date <= Table[i].Date
              /\ IsFound(market_price)
              /\ ResultOfRow(market_price, i)

C4_Witness ==
    /\ Looked /\ TableUsable /\ IsFound(market_price)
    /\ \E i, j \in MatchedRows :
          /\ Contains(Lower(Table[i].Market_Name), <<"a","k","u","r","e">>)
          /\ ~Contains(Lower(Table[j].Market_Name), <<"a","k","u","r","e">>)
          /\ Table[i].Date # NaT
          /\ Table[i].Date < Table[j].Date
          /\ ResultOfRow(market_price, j)

\* The preferred markets in the claimed order.
ClaimedPriority == << <<"a","k","u","r","e">>, <<"i","b","a","d","a","n">>, <<"l","a","g","o","s">> >>

\* The rows of the matched set dated with its latest date.
LatestSlice ==
    {i \in MatchedRows : Table[i].Date # NaT /\ \A j \in MatchedRows : Table[j].Date <= Table[i].Date}

InMarket(i, k) == Contains(Lower(Table[i].Market_Name), ClaimedPriority[k])

\* C5: when some market of the latest slice contains a preferred name, the row
\* returned is the first row in table order whose market contains the
\* earliest such preferred name, whatever the order of the rows.
C5_MarketPriority ==
    (Looked /\ TableUsable)
        => \A k \in 1..3 :
              ((\E i \in LatestSlice : InMarket(i, k))
               /\ (\A h \in 1..(k - 1) : \A i \in LatestSlice : ~InMarket(i, h)))
              => \E i \in LatestSlice :
                    /\ InMarket(i, k)
                    /\ \A j \in LatestSlice : InMarket(j, k) => i <= j
                    /\ ResultOfRow(market_price, i)

C5_Witness ==
    /\ Looked /\ TableUsable
    /\ \E i, j \in LatestSlice :
          /\ j < i
          /\ InMarket(i, 1)
          /\ InMarket(j, 3)
          /\ ResultOfRow(market_price, i)

\* The lines of the file that loading keeps.
KeptLines ==
    {i \in 1..Len(wb_file.rows) :
        /\ wb_file.rows[i].Price # NaN
        /\ wb_file.rows[i].Product_Name # None
        /\ wb_file.rows[i].Market_Name # None}

\* C6: when the table is empty or could not be loaded (file missing, column
\* missing, date column unparseable, every line dropped, no kept line dated)
\* the result is DataUnavailable for every label and nothing is raised.
C6_NoTableIsDataUnavailable ==
    (Looked /\ (wb_file.status # "ok" \/ \A i \in KeptLines : wb_file.rows[i].Date = NaT))
        => market_price = DataUnavailable /\ ~lookup_raised

C6_Witness ==
    /\ Looked
    /\ wb_file.status = "ok"
    /\ wb_file.rows # <<>>
    /\ KeptLines = {}
    /\ market_price = DataUnavailable

\* C9 (as claimed): the label is lower-cased and trimmed before matching, so
\* the result for a label is the result for its trimmed lower-case form.
C9_ResultOfNormalizedLabel ==
    Looked => market_price = fetch_market_price(Strip(Lower(product_name_from_vision)), wb_file).value

\* Claims about identify_product_via_web, over SpecIdentify.

Identified == vision_response.status = "ok" /\ vision_response.labels # <<>>

ResponseLabels == vision_response.labels

PlausibleLabels == {n \in 1..Len(ResponseLabels) : is_plausible(ResponseLabels[n].description)}

\* product_info is made of label n of the response.
InfoOfLabel(n) ==
    /\ product_info_val.product = Capitalize(ResponseLabels[n].description)
    /\ product_info_val.confidence = ResponseLabels[n].score

\* C8 (as claimed): when some label is plausible the label selected is a
\* plausible label of the highest confidence among the plausible ones,
\* whatever the confidence and position of the other labels; when none is
\* plausible it is a label of the highest confidence of all.
C8_HighestPlausibleLabelSelected ==
    Identified =>
        IF PlausibleLabels # {}
        THEN \E n \in PlausibleLabels :
                /\ \A m \in PlausibleLabels : ResponseLabels[m].score <= ResponseLabels[n].score
                /\ InfoOfLabel(n)
        ELSE \E n \in 1..Len(ResponseLabels) :
                /\ \A m \in 1..Len(ResponseLabels) : ResponseLabels[m].score <= ResponseLabels[n].score
                /\ InfoOfLabel(n)

\* Claims about the script run, over Spec.

\* The table of the session and the label the script hands to the lookup.
SessionTable == load_world_bank_data(wb_file).rows
SessionLabel == session_state.product_info.product

\* The lookup of this image has run and every row it matched lacks a date,
\* which makes the date selection fail.
LookupFailedInside ==
    /\ fetch_calls > 0
    /\ load_world_bank_data(wb_file).loaded
    /\ SessionTable # <<>>
    /\ product_df(SessionTable, SessionLabel) # {}
    /\ \A i \in product_df(SessionTable, SessionLabel) : SessionTable[i].Date = NaT

\* C7: a failure inside the lookup becomes the Error result; no run of the
\* script ends in an exception of fetch_market_price, and with the Error
\* result in market_data no campaign is generated while the session goes on.
C7_LookupFailureIsErrorResult ==
    /\ run_error # "Exception"
    /\ LookupFailedInside =>
          /\ session_state.market_data = LookupFailed
          /\ session_state.campaign_copy = NoCopy
          /\ session_state.editable_headline = None
    /\ session_state.campaign_copy # NoCopy => session_state.market_data.price # ErrorText

C7_Witness ==
    /\ LookupFailedInside
    /\ run_error = ""
    /\ session_state.market_data.price = ErrorText
    /\ session_state.market_data.location = LookupFailedText
    /\ session_state.campaign_copy = NoCopy
    /\ "market_data" \in session_state.keys

\* C10 (as claimed): for one accepted image, over the script runs that follow
\* without another image upload or Reset, identify_product_via_web and
\* fetch_market_price are each executed at most once.
C10_NoOperationRetried == identify_calls <= 1 /\ fetch_calls <= 1

\* Every data and editable key is present with the value None, both
\* uploaders hold no file, and the last run ended without exception.
SessionCleared ==
    /\ (data_keys \cup editable_keys) \subseteq session_state.keys
    /\ \A key \in data_keys \cup editable_keys : session_state[key] = NoneValues[key]
    /\ image_uploader = NoFile
    /\ file_uploader = NoFile
    /\ run_error = ""

\* The step is a press of "Reset All / Start Over": the only handler that
\* changes the uploader keys.
ResetPressed == session_state'.image_uploader_key # session_state.image_uploader_key

\* C11: a press of Reset in any reachable session state leaves, after the
\* script run that follows, df, pil_image, image_bytes, product_info,
\* market_data, campaign_copy, top_sales_products, total_sales_revenue and the
\* four editable fields None and both uploaders without file; and from such a
\* state, as long as no file is put into an uploader, every run leaves the
\* session so and executes neither identification nor lookup.
C11_ResetClearsAll ==
    [][ /\ ResetPressed =>
              (SessionCleared' /\ identify_calls' = 0 /\ fetch_calls' = 0)
        /\ (SessionCleared /\ image_uploader' = NoFile /\ file_uploader' = NoFile) =>
              (SessionCleared' /\ identify_calls' <= identify_calls /\ fetch_calls' <= fetch_calls)
      ]_vars

\* Reset has been pressed and nothing was uploaded since.
C11_Witness ==
    /\ session_state.image_uploader_key > 0
    /\ session_state.file_uploader_key > 1
    /\ SessionCleared

\* C12: at the end of every script run campaign_copy is non-None only if
\* market_data is a Found result (price neither 'N/A' nor 'Error'), and a
\* non-None campaign_copy is the one generate_campaign_content makes of the
\* product_info and market_data of that moment.
C12_CopyOnlyFromFoundPrice ==
    session_state.campaign_copy # NoCopy =>
        /\ session_state.product_info # NoProductInfo
        /\ session_state.market_data # NoResult
        /\ session_state.market_data.price \notin {NA, ErrorText}
        /\ session_state.campaign_copy =
              generate_campaign_content(session_state.product_info, session_state.market_data)

\* A campaign was generated, and survived an edit of the headline.
C12_Witness ==
    /\ run_error = ""
    /\ session_state.campaign_copy # NoCopy
    /\ IsFound(session_state.market_data)
    /\ session_state.editable_headline = EditedText

\* The lookup ran without yielding a price and the run got to its end.
C12_WitnessSkipped ==
    /\ run_error = ""
    /\ session_state.market_data # NoResult
    /\ session_state.market_data.price \in {NA, ErrorText}
    /\ session_state.campaign_copy = NoCopy

\* Claims about Data Highlights, over SpecHighlights.

\* The step has run on a sheet with Product and Revenue columns.
Analysed == sales_summary.ran /\ sales_sheet.has_columns

SheetRows == sales_sheet.rows

\* The revenue of sheet row i as a number, after stripping the currency sign
\* and the thousands separators; NaN when what is left is no number.
RevenueOf(i) == Revenue_Clean(SheetRows[i].Revenue)

ParseableRows == {i \in 1..Len(SheetRows) : RevenueOf(i) # NaN}

\* The sum of the parseable revenues of the first n sheet rows.
RECURSIVE SumOfParseable(_)
SumOfParseable(n) ==
    IF n = 0 THEN 0
    ELSE SumOfParseable(n - 1) + (IF n \in ParseableRows THEN RevenueOf(n) ELSE 0)

TopRows == sales_summary.top.rows

\* The sheet positions of the rows of top_sales_products.
TopPositions == {i \in 1..Len(SheetRows) : \E k \in 1..Len(TopRows) : TopRows[k] = SheetRows[i]}

\* top_sales_products is a top-N-by-revenue selection of the sheet: at most
\* five rows, each a sheet row with parseable revenue, in descending order of
\* revenue, and no parseable row left out has more revenue than a row taken.
TopSelection ==
    /\ Len(TopRows) <= 5
    /\ \A k \in 1..Len(TopRows) : \E i \in ParseableRows : TopRows[k] = SheetRows[i]
    /\ \A k \in 1..(Len(TopRows) - 1) :
          Revenue_Clean(TopRows[k].Revenue) >= Revenue_Clean(TopRows[k + 1].Revenue)
    /\ \A j \in ParseableRows \ TopPositions : \A i \in TopPositions : RevenueOf(j) <= RevenueOf(i)

\* C13 (as claimed): after Data Highlights has run on a sheet with Product
\* and Revenue columns, top_sales_products is a top-N-by-revenue selection
\* and total_sales_revenue equals the sum of all parseable revenues.
C13_TopSelectionAndTotal ==
    Analysed =>
        /\ TopSelection
        /\ sales_summary.total = [some |-> TRUE, value |-> SumOfParseable(Len(SheetRows))]

\* C13 (amended): when at least one revenue of the sheet is parseable,
\* top_sales_products holds the five rows of highest revenue (all parseable
\* rows when there are fewer), ordered by descending revenue, and
\* total_sales_revenue equals the sum of all parseable revenues; when no
\* revenue is parseable both top_sales_products and total_sales_revenue are
\* None.
C13_TopSelectionAndTotalWhenParseable ==
    Analysed =>
        IF ParseableRows # {}
        THEN /\ sales_summary.top.some
             /\ TopSelection
             /\ Cardinality(TopPositions) = Len(TopRows)
             /\ Len(TopRows) = (IF Cardinality(ParseableRows) < 5 THEN Cardinality(ParseableRows) ELSE 5)
             /\ sales_summary.total = [some |-> TRUE, value |-> SumOfParseable(Len(SheetRows))]
        ELSE /\ sales_summary.top = NoTop
             /\ sales_summary.total = NoTotal

\* Six rows of parseable revenue, one of them written with currency sign and
\* thousands separator: five are taken, the row left out has less revenue
\* than a row taken.
C13_Witness ==
    /\ Analysed
    /\ Len(SheetRows) = 6
    /\ Cardinality(ParseableRows) = 6
    /\ Len(TopRows) = 5
    /\ \E j \in ParseableRows \ TopPositions : \E i \in TopPositions : RevenueOf(j) < RevenueOf(i)
    /\ \E i \in ParseableRows : SheetRows[i].Revenue = <<"₦","1",",","2","0","0">>
    /\ sales_summary.total.some

\* Claims about the synonym map steps of fetch_market_price, over SpecSynonym.

\* The canonical name the synonym map holds for the label (None without one).
Canonical == MapGet(Lower(product_name_from_vision))

\* The rows whose product name equals the canonical name case-insensitively.
CanonicalEqualRows ==
    {i \in 1..Len(Table) : Lower(Table[i].Product_Name) = Lower(Canonical)}

\* The rows whose product name contains the text as a case-insensitive
\* literal substring.
LiteralRows(text) ==
    {i \in 1..Len(Table) : Contains(Lower(Table[i].Product_Name), Lower(text))}

\* The label has a canonical name and neither the label nor the canonical
\* name equals a product name of the table.
SubstringStepReached ==
    /\ Looked /\ TableUsable
    /\ Truthy(Canonical)
    /\ EqualRows = {}
    /\ CanonicalEqualRows = {}

\* C14 (as claimed): for a label mapped to a canonical name C, when no row
\* equals the label and no row equals C, the substring step selects every row
\* whose product name contains C as a case-insensitive literal substring
\* (parentheses and '/' in C included), so the result is Found whenever such a
\* row with a date exists.
C14_CanonicalSubstringIsLiteral ==
    SubstringStepReached =>
        /\ LiteralRows(Canonical) \subseteq contains_filter(Table, Canonical)
        /\ (\E i \in LiteralRows(Canonical) : Table[i].Date # NaT) => IsFound(market_price)

\* The exact match, the canonical exact match and the canonical substring
\* match all found nothing.
EarlierStepsEmpty ==
    /\ EqualRows = {}
    /\ Truthy(Canonical) => mapped_match(Table, Canonical) = {}

\* Some dated row has a product name of which the label is a substring.
LabelInDatedProduct ==
    \E i \in LiteralRows(product_name_from_vision) : Table[i].Date # NaT

\* C15 (as claimed): a label with no synonym entry never yields Found through
\* a substring of a product name, while a label with an entry (any entry)
\* whose earlier steps found nothing yields Found whenever the original label
\* is a substring of the product name of some dated row.
C15_BroadFallbackForEveryEntry ==
    (Looked /\ TableUsable /\ EarlierStepsEmpty) =>
        /\ ~HasMapEntry(Lower(product_name_from_vision)) => ~IsFound(market_price)
        /\ (HasMapEntry(Lower(product_name_from_vision)) /\ LabelInDatedProduct)
              => IsFound(market_price)

\* C15 (amended): the broad fallback runs if and only if the label has an
\* entry with a canonical name and the exact match, the canonical exact match
\* and the canonical substring match all found nothing.  A label with no
\* entry never yields Found through a substring of a product name; a label
\* whose entry is None gets TooGeneric although it is a substring of a
\* product name; a label with a canonical name whose earlier steps found
\* nothing is matched against all product names, and the result is Found, from
\* a row whose product name contains the label, whenever such a row with a
\* date exists, and ProductNotFound when no product name contains the label.
C15_BroadFallbackForCanonicalEntry ==
    (Looked /\ TableUsable /\ EarlierStepsEmpty) =>
        /\ ~HasMapEntry(Lower(product_name_from_vision)) => ~IsFound(market_price)
        /\ (HasMapEntry(Lower(product_name_from_vision)) /\ Canonical = None)
              => market_price = TooGeneric
        /\ Truthy(Canonical) =>
              /\ MatchedRows = LiteralRows(product_name_from_vision)
              /\ LabelInDatedProduct =>
                    /\ IsFound(market_price)
                    /\ \E i \in LiteralRows(product_name_from_vision) : ResultOfRow(market_price, i)
              /\ (LiteralRows(product_name_from_vision) = {}) => (market_price = ProductNotFound)

\* 'Corn' finds no maize row and is found in 'Sweet corn' by the broad
\* fallback.
C15_Witness ==
    /\ Looked /\ TableUsable /\ EarlierStepsEmpty
    /\ product_name_from_vision = <<"C","o","r","n">>
    /\ \E i \in LiteralRows(product_name_from_vision) :
          /\ Table[i].Product_Name = <<"S","w","e","e","t"," ","c","o","r","n">>
          /\ ResultOfRow(market_price, i)
    /\ IsFound(market_price)

\* Claims about the market selection of fetch_market_price, over SpecLookup.

\* No market name of the latest slice contains a preferred market name.
NoPreferredMarket == \A i \in LatestSlice : \A k \in 1..3 : ~InMarket(i, k)

\* The first row of the latest slice in table order.
FirstOfLatestSlice == CHOOSE i \in LatestSlice : \A j \in LatestSlice : i <= j

\* C16: when no market name in the latest slice contains 'Akure', 'Ibadan' or
\* 'Lagos', the result is the first row of the latest slice in table order
\* and its market label names that row's market with a general-fallback tag;
\* in every Found result the market label carries the 'Primary Target' tag
\* if and only if the row was selected through Akure (some market of the
\* latest slice contains 'Akure'), and a fallback tag otherwise.
C16_GeneralFallbackAndTags ==
    (Looked /\ TableUsable /\ LatestSlice # {}) =>
        /\ IsFound(market_price)
        /\ NoPreferredMarket =>
              /\ ResultOfRow(market_price, FirstOfLatestSlice)
              /\ StartsWith(market_price.location,
                            Table[FirstOfLatestSlice].Market_Name \o <<" ","(","G","e","n","e","r","a","l"," ","F","a","l","l","b","a","c","k">>)
        /\ Contains(market_price.location, <<"(","P","r","i","m","a","r","y"," ","T","a","r","g","e","t",")">>) <=> (\E i \in LatestSlice : InMarket(i, 1))
        /\ Contains(market_price.location, <<"F","a","l","l","b","a","c","k">>) <=> ~(\E i \in LatestSlice : InMarket(i, 1))

\* Two rows of the latest slice at a market outside the priority list: the
\* first one is returned, tagged as general fallback.
C16_Witness ==
    /\ Looked /\ TableUsable
    /\ Cardinality(LatestSlice) = 2
    /\ NoPreferredMarket
    /\ ResultOfRow(market_price, FirstOfLatestSlice)
    /\ \E j \in LatestSlice : j # FirstOfLatestSlice /\ ~ResultOfRow(market_price, j)
    /\ Contains(market_price.location, <<" ","(","G","e","n","e","r","a","l"," ","F","a","l","l","b","a","c","k">>)

\* Further claims about the script run, over Spec.

\* C17 (as claimed): in every script run each st.session_state key that is
\* read is present when it is read; the run that accepts a newly uploaded
\* image does not read the keys it deleted before they are set again, so no
\* run ends on a missing key.
C17_NoRunEndsOnMissingKey == run_error # "AttributeError"

\* What identification makes of the image the uploader holds.
InfoOfUploadedImage ==
    identify_product_via_web(VisionResponse(image_uploader.content, TRUE))

\* C18 (as claimed): at the end of every script run a non-None product_info,
\* market_data or campaign_copy was computed from the image the image
\* uploader holds at that moment; after the image is replaced (by another
\* image of the same file name too) or removed, nothing derived from the
\* previous image remains.
C18_ResultsOfCurrentImage ==
    (\/ session_state.product_info # NoProductInfo
     \/ session_state.market_data # NoResult
     \/ session_state.campaign_copy # NoCopy)
        => /\ image_uploader # NoFile
           /\ session_state.product_info = InfoOfUploadedImage

\* The market name of the price record: the location without its tag.
MarketOfRecord == BeforeParen(session_state.market_data.location)

\* C19 (as claimed): the headline ends in ' In Akure!' only when the price
\* record comes from a market whose name contains 'Akure'; for a result
\* selected through the Ibadan/Lagos fallback or the general fallback the
\* headline does not claim Akure.
C19_HeadlineClaimsAkureOnlyForAkureMarket ==
    (session_state.campaign_copy # NoCopy
     /\ Contains(session_state.campaign_copy.headline, <<" ","I","n"," ","A","k","u","r","e","!">>))
        => Contains(MarketOfRecord, <<"A","k","u","r","e">>)

====
